---- MODULE Spec2Model ----
(***************************************************************************)
(* Vital Weather connector: the HTTP client operations of                  *)
(* app/actions/client.py and the four action handlers of                   *)
(* app/actions/handlers.py, as one state machine.  A handler invocation is *)
(* a coroutine: it runs atomically between two awaits, and every await     *)
(* (an HTTP attempt, a trigger_action, a send to Gundi) is one step whose  *)
(* input is drawn from a small set.                                        *)
(***************************************************************************)
EXTENDS Integers, Sequences, FiniteSets, TLC

VARIABLES
    handler,     \* the action handler being executed, "none" when idle
    pc,          \* the await the coroutine is suspended at
    config,      \* action_config.station of pull_station_conditions
    attempt,     \* attempts made so far by the running client operation
    resp,        \* the last HTTP exchange of the client
    ret,         \* what the last attempt of the client operation did
    stations,    \* response.stations held by the handler
    idx,         \* position in stations of the loop of the handler
    summaries,   \* daily summary records of the current station not yet sent
    units,       \* units table of the daily summary being sent
    batches,     \* batches not yet forwarded to the sender
    count,       \* stations_triggered / observations_extracted / summaries_fetched
    scheduled,   \* units of work submitted to the scheduler by this invocation
    delivered,   \* batches forwarded to the sender by this invocation
    requests,    \* client operations called by this invocation, in order
    result,      \* how the invocation ended
    watermark,   \* the state store of state_manager
    prev         \* the pull of station conditions that ran just before

vars == <<handler, pc, config, attempt, resp, ret, stations, idx, summaries,
          units, batches, count, scheduled, delivered, requests, result,
          watermark, prev>>

----------------------------------------------------------------------------
(* Bounds of the model *)

MaxStations == 2
MaxAttempts == 2
MaxRecords == 450
MaxSummaries == 2

(* Program constants *)

BatchSize == 200

----------------------------------------------------------------------------
(* Values *)

Nothing == [nothing |-> TRUE]

RECURSIVE SumSeq(_)
SumSeq(s) == IF s = <<>> THEN 0 ELSE Head(s) + SumSeq(Tail(s))

RECURSIVE Flatten(_)
Flatten(ss) == IF ss = <<>> THEN <<>> ELSE Head(ss) \o Flatten(Tail(ss))

Station(i) ==
    [Station_ID |-> i, Station_Name |-> "Station " \o ToString(i),
     latitude |-> -15 - i, longitude |-> 34 + i, height |-> 166 + i]

StationIds == 1..MaxStations

(* Lists of distinct stations, in any order *)
StationLists ==
    { [j \in 1..Len(ids) |-> Station(ids[j])] :
        ids \in { s \in UNION { [1..n -> StationIds] : n \in 0..MaxStations } :
                    \A a, b \in 1..Len(s) : a # b => s[a] # s[b] } }

ConditionsItem(sid, i) ==
    [station_id |-> sid, station_Name |-> "Station " \o ToString(sid),
     ts |-> 1000 + i, pressure |-> 995, temperature |-> 25, humidity |-> 88,
     wind_average |-> 0, max_wind |-> 3, wind_direction |-> 180,
     total_rain |-> 0, FDI |-> 12, solar_radiation |-> i % 7]

Units ==
    [local_time_last_update |-> "", ts |-> "", temperature |-> "C",
     humidity |-> "%", pressure |-> "mb", wind_average |-> "Kp/h",
     wind_direction |-> "360 points", total_rain |-> "mm",
     solar_radiation |-> "W/M2", FDI |-> ""]

DailySummaryItem(sid, d) ==
    [station_id |-> sid, Date |-> d, rain |-> 0, avg_temp |-> 21,
     min_temp |-> 15, max_temp |-> 29, avg_RH |-> 70, min_RH |-> 40,
     max_RH |-> 95, avg_wind |-> 4, avg_solar |-> 210, avg_pressure |-> 1012,
     min_pressure |-> 1009, max_pressure |-> 1015, avg_winddirection |-> "SE"]

DailySummaryUnits ==
    [rain |-> "mm", avg_temp |-> "C", max_temp |-> "C", min_temp |-> "C",
     avg_RH |-> "%", max_hum |-> "%", min_hum |-> "%", avg_wind |-> "Kp/h",
     avg_solar |-> "W/M2", avg_pressure |-> "mb", min_pressure |-> "mb",
     max_pressure |-> "mb", avg_winddirection |-> "points"]

----------------------------------------------------------------------------
(* HTTP exchanges.  A body is the empty byte string, text that is not     *)
(* JSON, or the serialisation of a JSON value: null or an object.         *)

EmptyBody == [kind |-> "empty"]
GarbageBody == [kind |-> "garbage"]
JsonNull == [kind |-> "json", value |-> [type |-> "null"]]
JsonObject(obj) == [kind |-> "json", value |-> [type |-> "object", obj |-> obj]]

EmptyObject == [k \in {} |-> 0]

(* response.text *)
text(body) ==
    CASE body.kind = "empty" -> ""
      [] body.kind = "garbage" -> "<html>"
      [] body.value.type = "null" -> "null"
      [] body.value.obj = EmptyObject -> "{}"
      [] OTHER -> "{...}"

(* response.json(): ok is FALSE where json.loads raises JSONDecodeError *)
json(body) ==
    IF body.kind = "json" THEN [ok |-> TRUE, value |-> body.value]
    ELSE [ok |-> FALSE, value |-> [type |-> "null"]]

(* truth value of a parsed JSON value: None and {} are falsy *)
JsonTruthy(v) == v.type = "object" /\ DOMAIN v.obj # {}

(* a status check that takes only server errors for errors *)
is_error_5xx(status) == status >= 500

(* response.is_error / raise_for_status: 4xx and 5xx *)
is_error(status) == status >= 400

----------------------------------------------------------------------------
(* Outcomes of a call: a returned value or a raised exception *)

Return(v) == [kind |-> "return", value |-> v, exc |-> Nothing]
Raise(e) == [kind |-> "raise", value |-> Nothing, exc |-> e]
NoOutcome == [kind |-> "none", value |-> Nothing, exc |-> Nothing]

VWException(message, status_code) ==
    [type |-> "VWException", status_code |-> status_code, message |-> message]

VWNotFoundException(message) ==
    [type |-> "VWNotFoundException", status_code |-> 404, message |-> message]

VWUnauthorizedException(message) ==
    [type |-> "VWUnauthorizedException", status_code |-> 401, message |-> message]

(* httpx.HTTPStatusError, raised by raise_for_status; e.response.status_code *)
HTTPStatusError(status) ==
    [type |-> "HTTPStatusError", status_code |-> status, message |-> ""]

(* httpx.TransportError: no response was received (connect error, timeout) *)
TransportError == [type |-> "TransportError", status_code |-> 0, message |-> ""]

(* exceptions of the standard library and pydantic that the client lets through *)
OtherError(type) == [type |-> type, status_code |-> 0, message |-> ""]

(* the classes the retry decorator is told to retry on: httpx.HTTPError *)
(* a retry decorator that would retry on every exception *)
IsHTTPError_Exception(e) == e.type # "none"

(* httpx.HTTPError and its subclasses: the transport errors and the       *)
(* HTTPStatusError that raise_for_status raises                            *)
IsHTTPError(e) == e.type \in {"HTTPStatusError", "TransportError"}

IsVWError(e) ==
    e.type \in {"VWUnauthorizedException", "VWNotFoundException", "VWException"}

(* populating a model: the alias "unites" fills the field "units", keys    *)
(* that are no field of the model are ignored                               *)
FieldName(alias) == IF alias = "unites" THEN "units" ELSE alias

Populate(required, obj) ==
    LET alias_of(f) == CHOOSE a \in required : FieldName(a) = f IN
    [f \in { FieldName(a) : a \in required } |-> obj[alias_of(f)]]

(* pydantic parse_obj: every field of the model is required *)
parse_obj(type, required, obj) ==
    IF required \subseteq DOMAIN obj
    THEN Return([type |-> type, obj |-> Populate(required, obj)])
    ELSE Raise(OtherError("ValidationError"))

(* the value a client operation returns for a falsy JSON body: response.text *)
Str(t) == [type |-> "str", text |-> t]

(* truth value of what a client operation returned: a model instance is    *)
(* truthy, a str is truthy unless it is empty                               *)
Truthy(v) == IF v.type = "str" THEN Len(v.text) > 0 ELSE TRUE

(* a check of the failure code that lets client errors through *)
failure_code_5xx(parsed_response) == parsed_response.code >= 500

(* parsed_response["code"] != 200 *)
failure_code(parsed_response) == parsed_response.code # 200

(* The body of the try block shared by the three operations, lines         *)
(* "response.raise_for_status()" to "return response.text", followed by    *)
(* the except clause.  r is the HTTP exchange of one attempt.              *)
Attempt(r, type, required) ==
    IF r.kind = "error" THEN Raise(TransportError)
    ELSE IF is_error(r.status) THEN
        IF r.status = 401 THEN Raise(VWUnauthorizedException("Unauthorized access"))
        ELSE IF r.status = 404 THEN Raise(VWNotFoundException("User not found"))
        ELSE Raise(HTTPStatusError(r.status))
    ELSE LET parsed_response == json(r.body) IN
        IF ~parsed_response.ok THEN Raise(OtherError("JSONDecodeError"))
        ELSE IF JsonTruthy(parsed_response.value) THEN
            LET obj == parsed_response.value.obj IN
            IF "code" \notin DOMAIN obj THEN Raise(OtherError("KeyError"))
            ELSE IF failure_code(obj) THEN
                IF "message" \notin DOMAIN obj THEN Raise(OtherError("KeyError"))
                ELSE Raise(VWException(obj.message, obj.code))
            ELSE parse_obj(type, required, obj)
        ELSE Return(Str(text(r.body)))

StationsResponseFields == {"stations", "generated_at", "code", "message"}
ConditionsResponseFields == {"conditions", "unites", "generated_at", "code", "message"}
DailySummaryResponseFields == {"dailysummary", "unites", "generated_at", "code", "message"}

get_stations(r) == Attempt(r, "StationsResponse", StationsResponseFields)

get_station_conditions(r) ==
    Attempt(r, "ConditionsResponse", ConditionsResponseFields)

get_daily_summary(r) ==
    Attempt(r, "DailySummaryResponse", DailySummaryResponseFields)

(* stamina.retry: an attempt that raised an httpx.HTTPError is repeated    *)
(* while attempts are left                                                  *)
Retries(out, n) == out.kind = "raise" /\ IsHTTPError(out.exc) /\ n < MaxAttempts

----------------------------------------------------------------------------
(* Collaborators that live outside app/actions *)

(* app.services.utils.generate_batches: consecutive slices of at most n *)
RECURSIVE generate_batches(_, _)
generate_batches(iterable, n) ==
    IF iterable = <<>> THEN <<>>
    ELSE IF Len(iterable) <= n THEN <<iterable>>
    ELSE <<SubSeq(iterable, 1, n)>>
           \o generate_batches(SubSeq(iterable, n + 1, Len(iterable)), n)

(* app.services.action_scheduler.trigger_action: enqueue one unit of work *)
trigger_action(queue, action_id, cfg) ==
    Append(queue, [action_id |-> action_id, config |-> cfg])

(* send_observations_to_gundi / send_events_to_gundi: the lengths the      *)
(* returned list may have for a batch; the sender may also raise           *)
Accepted(batch) == {Len(batch), Len(batch) - 1}

(* a batch the sender took, with the length of the list it returned *)
Sent(batch, n) == [records |-> batch, accepted |-> n]

SendError == OtherError("SendError")

(* app.services.state.IntegrationStateManager: an absent key, a stored one *)
NoWatermark == [present |-> FALSE, updated_at |-> 0]
Stored(t) == [present |-> TRUE, updated_at |-> t]

----------------------------------------------------------------------------
(* Transformers *)

(* a format that drops the unit *)
Fmt_value(value, unit) == ToString(value)

(* f"{value} {unit}" *)
Fmt(value, unit) == ToString(value) \o " " \o unit

(* match_units: the fields that have a unit, except ts, become strings *)
match_units(record, us) ==
    [key \in DOMAIN record |->
        IF key \in DOMAIN us /\ key # "ts"
        THEN Fmt(record[key], us[key])
        ELSE record[key]]

(* strptime(Date, "%Y-%m-%d").replace(tzinfo=utc) *)
UtcMidnight(date) == [date |-> date, hour |-> 0, minute |-> 0, tz |-> "UTC"]

transform_daily_summary(summary, us, station) ==
    LET readings == match_units(summary, us) IN
    << [title |-> "Station " \o ToString(summary.station_id)
                    \o " Summary (" \o summary.Date \o ")",
        event_type |-> "weather_station_summary",
        recorded_at |-> UtcMidnight(summary.Date),
        location |-> [lat |-> station.latitude, lon |-> station.longitude],
        event_details |-> readings] >>

transform(station, observations) ==
    LET us == observations.units
        conditions == observations.conditions
        readings == [i \in 1..Len(conditions) |-> match_units(conditions[i], us)]
    IN  [i \in 1..Len(readings) |->
            [source_name |-> station.Station_Name,
             source |-> station.Station_ID,
             type |-> "stationary-object",
             subtype |-> "weather_station",
             recorded_at |-> readings[i].ts,
             location |-> [lat |-> station.latitude, lon |-> station.longitude],
             additional |->
                [key \in (DOMAIN readings[i] \ {"ts"}) \cup {"station_height"} |->
                    IF key = "station_height" THEN station.height
                    ELSE readings[i][key]]]]

----------------------------------------------------------------------------
(* Inputs: what the Vital Weather server may answer *)

NoExchange == [kind |-> "none", status |-> 0, body |-> EmptyBody]
ConnectFailure == [kind |-> "error", status |-> 0, body |-> EmptyBody]
Response(status, body) == [kind |-> "response", status |-> status, body |-> body]

GeneratedAt == [epoch |-> "2025-03-06 14:35:02", tz |-> "UTC"]

Envelope(payload_key, payload) ==
    [k \in {payload_key, "generated_at", "code", "message"} |->
        CASE k = "generated_at" -> GeneratedAt
          [] k = "code" -> 200
          [] k = "message" -> "OK"
          [] OTHER -> payload]

WithUnits(obj, us) ==
    [k \in DOMAIN obj \cup {"unites"} |-> IF k = "unites" THEN us ELSE obj[k]]

IncorrectKey == JsonObject([code |-> 400, message |-> "Incorrect KEY"])

(* bodies that carry no payload *)
CommonBodies ==
    { EmptyBody, GarbageBody, JsonNull, JsonObject(EmptyObject), IncorrectKey,
      JsonObject([code |-> 400]),
      JsonObject([message |-> "OK", generated_at |-> GeneratedAt]),
      JsonObject([code |-> 200, message |-> "OK", generated_at |-> GeneratedAt]) }

StationsBodies ==
    { JsonObject(Envelope("stations", l)) : l \in StationLists }

RecordCounts == {0, 1, BatchSize, BatchSize + 1, MaxRecords}

Conditions(sid, n) == [i \in 1..n |-> ConditionsItem(sid, i)]

ConditionsBodies(sid) ==
    { JsonObject(WithUnits(Envelope("conditions", Conditions(sid, n)), Units)) :
        n \in RecordCounts }

Dates == [i \in 1..MaxSummaries |-> "2025-03-0" \o ToString(i)]

SummaryCounts == {0, 1, MaxSummaries}

DailySummaries(sid, n) == [i \in 1..n |-> DailySummaryItem(sid, Dates[i])]

DailySummaryBodies(sid) ==
    { JsonObject(WithUnits(Envelope("dailysummary", DailySummaries(sid, n)),
                           DailySummaryUnits)) : n \in SummaryCounts }

ErrorStatuses == {401, 403, 404, 500}

(* the exchanges of one attempt, given the bodies that carry a payload *)
Exchanges(payload_bodies) ==
    {ConnectFailure}
    \cup { Response(200, b) : b \in CommonBodies \cup payload_bodies }
    \cup { Response(st, b) : st \in ErrorStatuses,
              b \in {GarbageBody, IncorrectKey} \cup payload_bodies }

(* a GET of the client: the endpoint, the station in the path (0 for the   *)
(* station list) and the names of the query parameters                      *)
Request(endpoint, sid) ==
    [endpoint |-> endpoint, station |-> sid, params |-> {"key"}]

----------------------------------------------------------------------------
(* State *)

NoStation == [Station_ID |-> 0]
NoPrev ==
    [station |-> 0, requests |-> <<>>, outcome |-> "none", sent |-> <<>>,
     unsent |-> <<>>]

Idle == pc = "idle"

Init ==
    /\ handler = "none"
    /\ pc = "idle"
    /\ config = NoStation
    /\ attempt = 0
    /\ resp = NoExchange
    /\ ret = NoOutcome
    /\ stations = <<>>
    /\ idx = 0
    /\ summaries = <<>>
    /\ units = Nothing
    /\ batches = <<>>
    /\ count = 0
    /\ scheduled = <<>>
    /\ delivered = <<>>
    /\ requests = <<>>
    /\ result = NoOutcome
    /\ watermark = [s \in StationIds |-> NoWatermark]
    /\ prev = NoPrev

(* A new invocation: everything the previous one held is gone *)
Begin(h, first, cfg) ==
    /\ Idle
    /\ handler' = h
    /\ pc' = first
    /\ config' = cfg
    /\ attempt' = 0
    /\ resp' = NoExchange
    /\ ret' = NoOutcome
    /\ stations' = <<>>
    /\ idx' = 0
    /\ summaries' = <<>>
    /\ units' = Nothing
    /\ batches' = <<>>
    /\ count' = 0
    /\ scheduled' = <<>>
    /\ delivered' = <<>>
    /\ requests' = <<>>
    /\ result' = NoOutcome
    /\ prev' = IF h = "pull_station_conditions" THEN prev ELSE NoPrev
    /\ UNCHANGED watermark

(* get_auth_config: raises when the integration has no "auth" configuration *)
get_auth_config(has_auth) ==
    IF has_auth THEN Return([key |-> "secret"])
    ELSE Raise(OtherError("ConfigurationNotFound"))

(* the log of client operations: every attempt of an operation issues the *)
(* same request, which is logged when the operation is called              *)
Called(log, n, req) == IF n = 0 THEN Append(log, req) ELSE log

(* One attempt of a client operation: the request is issued, the exchange  *)
(* r is received and out is what the attempt did with it                    *)
Exchange(r, out, endpoint, sid) ==
    /\ resp' = r
    /\ ret' = out
    /\ requests' = Called(requests, attempt, Request(endpoint, sid))

(* the attempt raised an httpx.HTTPError and the operation is tried again *)
Retry ==
    /\ attempt' = attempt + 1
    /\ UNCHANGED <<handler, pc, config, stations, idx, summaries, units,
                   batches, count, scheduled, delivered, result, watermark,
                   prev>>

(* the invocation ends: it returns a dictionary or raises *)
Finish(out) ==
    /\ pc' = "idle"
    /\ result' = out
    /\ UNCHANGED <<handler, config>>

AttributeError == OtherError("AttributeError")

----------------------------------------------------------------------------
(* action_auth *)

(* an action_auth that reports every HTTP error like the application error *)
auth_result_uniform(out) ==
    IF out.kind = "return" THEN
        IF ~Truthy(out.value)
        THEN Return([valid_credentials |-> FALSE, message |-> "Bad credentials"])
        ELSE Return([valid_credentials |-> TRUE])
    ELSE IF IsVWError(out.exc) \/ out.exc.type = "HTTPStatusError" THEN
        Return([valid_credentials |-> FALSE, status_code |-> out.exc.status_code,
                message |-> out.exc.message])
    ELSE Raise(out.exc)

(* the try/except of action_auth applied to what get_stations did *)
auth_result(out) ==
    IF out.kind = "return" THEN
        IF ~Truthy(out.value)
        THEN Return([valid_credentials |-> FALSE, message |-> "Bad credentials"])
        ELSE Return([valid_credentials |-> TRUE])
    ELSE IF IsVWError(out.exc) THEN
        Return([valid_credentials |-> FALSE, status_code |-> out.exc.status_code,
                message |-> out.exc.message])
    ELSE IF out.exc.type = "HTTPStatusError" THEN
        Return([error |-> TRUE, status_code |-> out.exc.status_code])
    ELSE Raise(out.exc)

auth_begin == Begin("auth", "get_stations", NoStation)

auth_get_stations ==
    /\ handler = "auth" /\ pc = "get_stations"
    /\ \E r \in Exchanges(StationsBodies) :
        LET out == get_stations(r) IN
        /\ Exchange(r, out, "stations", 0)
        /\ IF Retries(out, attempt + 1) THEN Retry
           ELSE /\ Finish(auth_result(out))
                /\ attempt' = attempt + 1
                /\ UNCHANGED <<stations, idx, summaries, units, batches, count,
                               scheduled, delivered, watermark, prev>>

action_auth == auth_begin \/ auth_get_stations

----------------------------------------------------------------------------
(* action_pull_observations *)

(* an invocation that cannot resolve its credentials raises at once *)
BeginWithAuth(h, first, cfg) ==
    \E has_auth \in BOOLEAN :
        LET auth_config == get_auth_config(has_auth) IN
        IF auth_config.kind = "return" THEN Begin(h, first, cfg)
        ELSE /\ Idle
             /\ handler' = h
             /\ config' = cfg
             /\ result' = auth_config
             /\ attempt' = 0
             /\ resp' = NoExchange
             /\ ret' = NoOutcome
             /\ stations' = <<>>
             /\ idx' = 0
             /\ summaries' = <<>>
             /\ units' = Nothing
             /\ batches' = <<>>
             /\ count' = 0
             /\ scheduled' = <<>>
             /\ delivered' = <<>>
             /\ requests' = <<>>
             /\ prev' = NoPrev
             /\ UNCHANGED <<pc, watermark>>

(* except clauses that log the error and report no station *)
observations_except_swallow(e) == Return([stations_triggered |-> 0])

(* the except clauses of action_pull_observations: log and raise e *)
observations_except(e) == Raise(e)

observations_begin ==
    BeginWithAuth("pull_observations", "get_stations", NoStation)

(* a configuration built from the first station of the list *)
PullStationConditionsConfig_first(station) == [station |-> stations[1]]

(* PullStationConditionsConfig(station=station) *)
PullStationConditionsConfig(station) == [station |-> station]

observations_get_stations ==
    /\ handler = "pull_observations" /\ pc = "get_stations"
    /\ \E r \in Exchanges(StationsBodies) :
        LET out == get_stations(r) IN
        /\ Exchange(r, out, "stations", 0)
        /\ IF Retries(out, attempt + 1) THEN Retry
           ELSE /\ attempt' = attempt + 1
                /\ UNCHANGED <<summaries, units, batches, count, scheduled,
                               delivered, watermark, prev>>
                /\ IF out.kind = "raise"
                   THEN /\ Finish(observations_except(out.exc))
                        /\ UNCHANGED <<stations, idx>>
                   ELSE IF ~Truthy(out.value)
                   THEN /\ Finish(Return([stations_triggered |-> 0]))
                        /\ UNCHANGED <<stations, idx>>
                   ELSE IF out.value.type = "str"
                   THEN Finish(Raise(AttributeError)) /\ UNCHANGED <<stations, idx>>
                   ELSE IF out.value.obj.stations = <<>>
                   THEN /\ Finish(Return([stations_triggered |-> 0]))
                        /\ UNCHANGED <<stations, idx>>
                   ELSE /\ stations' = out.value.obj.stations
                        /\ idx' = 1
                        /\ pc' = "trigger_action"
                        /\ UNCHANGED <<handler, config, result>>

observations_trigger_action ==
    /\ handler = "pull_observations" /\ pc = "trigger_action"
    /\ LET parsed_config == PullStationConditionsConfig(stations[idx]) IN
       scheduled' = trigger_action(scheduled, "pull_station_conditions", parsed_config)
    /\ count' = count + 1
    /\ IF idx < Len(stations)
       THEN idx' = idx + 1 /\ UNCHANGED <<handler, pc, config, result>>
       ELSE /\ Finish(Return([stations_triggered |-> count + 1]))
            /\ UNCHANGED idx
    /\ UNCHANGED <<attempt, resp, ret, stations, summaries, units, batches,
                   delivered, requests, watermark, prev>>

action_pull_observations ==
    observations_begin \/ observations_get_stations \/ observations_trigger_action

----------------------------------------------------------------------------
(* action_pull_station_conditions *)

(* a handler that stores a cursor whenever a pull ends *)
watermark_after_pull_always(store, sid, how, sent) ==
    [store EXCEPT ![sid] = Stored(Len(sent))]

(* What the handler does to the state store when a pull ends: it makes no  *)
(* get_state or set_state call, whatever the pull did.  how is one of      *)
(* "ok", "no_data", "fetch_failed", "send_failed"; sent are the batches    *)
(* forwarded.                                                              *)
watermark_after_pull(store, sid, how, sent) == store

(* the window of the request: the URL and parameters carry the station and *)
(* the key only, neither a start nor an end                                *)
conditions_request(store, sid) == Request("conditions", sid)

(* a count of the records produced locally: += len(batch) *)
accumulate_local(total, response_len, batch) == total + Len(batch)

(* observations_extracted += len(response), summaries_fetched += len(response) *)
accumulate(total, response_len, batch) == total + response_len

(* a handler that answers a failed fetch with an empty result *)
conditions_except_zero(e) == Return([observations_extracted |-> 0])

(* a handler that answers a failure with the count it has reached *)
conditions_except_count(e) == Return([observations_extracted |-> count])

(* What the handler does with an exception raised inside its try block:    *)
(* VWUnauthorizedException and VWNotFoundException are logged and raised   *)
(* again, every other exception is caught by no clause                     *)
conditions_except(e) == Raise(e)

conditions_begin ==
    \E sid \in StationIds :
        BeginWithAuth("pull_station_conditions", "get_station_conditions",
                      Station(sid))

(* the pull ends; the record of it keeps the batches it forwarded and the *)
(* observations it had made and did not forward                            *)
conditions_end(out, how, sent, reqs) ==
    /\ Finish(out)
    /\ watermark' = watermark_after_pull(watermark, config.Station_ID, how, sent)
    /\ prev' = [station |-> config.Station_ID, requests |-> reqs,
                 outcome |-> how,
                 sent |-> [i \in 1..Len(sent) |-> sent[i].records],
                 unsent |-> IF how = "send_failed" THEN Flatten(batches)
                            ELSE <<>>]

conditions_get_station_conditions ==
    /\ handler = "pull_station_conditions" /\ pc = "get_station_conditions"
    /\ \E r \in Exchanges(ConditionsBodies(config.Station_ID)) :
        LET out == get_station_conditions(r)
            req == conditions_request(watermark, config.Station_ID)
            reqs == Called(requests, attempt, req)
        IN
        /\ resp' = r
        /\ ret' = out
        /\ requests' = reqs
        /\ IF Retries(out, attempt + 1) THEN Retry
           ELSE /\ attempt' = attempt + 1
                /\ UNCHANGED <<stations, idx, summaries, units, count, scheduled,
                               delivered>>
                /\ IF out.kind = "raise"
                   THEN /\ conditions_end(conditions_except(out.exc), "fetch_failed",
                                          <<>>, reqs)
                        /\ UNCHANGED batches
                   ELSE IF ~Truthy(out.value)
                   THEN /\ conditions_end(Return([observations_extracted |-> 0]),
                                          "no_data", <<>>, reqs)
                        /\ UNCHANGED batches
                   ELSE IF out.value.type = "str"
                   THEN /\ conditions_end(Raise(AttributeError), "no_data", <<>>, reqs)
                        /\ UNCHANGED batches
                   ELSE LET transformed_data == transform(config, out.value.obj)
                            todo == generate_batches(transformed_data, BatchSize)
                        IN  IF todo = <<>>
                            THEN /\ conditions_end(
                                        Return([observations_extracted |-> 0]),
                                        "no_data", <<>>, reqs)
                                 /\ UNCHANGED batches
                            ELSE /\ batches' = todo
                                 /\ pc' = "send_observations"
                                 /\ UNCHANGED <<handler, config, result,
                                                watermark, prev>>

conditions_send_observations ==
    /\ handler = "pull_station_conditions" /\ pc = "send_observations"
    /\ UNCHANGED <<attempt, resp, ret, stations, idx, summaries, units,
                   scheduled, requests>>
    /\ \/ \E n \in Accepted(Head(batches)) :
            LET sent == Append(delivered, Sent(Head(batches), n))
                observations_extracted == accumulate(count, n, Head(batches))
            IN
            /\ delivered' = sent
            /\ count' = observations_extracted
            /\ batches' = Tail(batches)
            /\ IF Tail(batches) # <<>>
               THEN UNCHANGED <<handler, pc, config, result, watermark, prev>>
               ELSE conditions_end(
                        Return([observations_extracted |-> observations_extracted]),
                        "ok", sent, requests)
       \/ /\ conditions_end(conditions_except(SendError), "send_failed",
                             delivered, requests)
          /\ UNCHANGED <<delivered, count, batches>>

action_pull_station_conditions ==
    \/ conditions_begin
    \/ conditions_get_station_conditions
    \/ conditions_send_observations

----------------------------------------------------------------------------
(* action_fetch_daily_summary *)

summary_begin ==
    BeginWithAuth("fetch_daily_summary", "get_stations", NoStation)

(* loops that end after the first station of the list *)
summary_continue_first(sts, i, sums, us, n) ==
    IF sums # <<>> THEN
        LET transformed_data == transform_daily_summary(Head(sums), us, sts[i]) IN
        /\ pc' = "send_events"
        /\ batches' = generate_batches(transformed_data, BatchSize)
        /\ summaries' = sums
        /\ units' = us
        /\ idx' = i
        /\ UNCHANGED <<handler, config, result, attempt>>
    ELSE IF i < Len(sts) /\ i < 1 THEN
        /\ pc' = "get_daily_summary"
        /\ idx' = i + 1
        /\ attempt' = 0
        /\ batches' = <<>>
        /\ summaries' = <<>>
        /\ units' = Nothing
        /\ UNCHANGED <<handler, config, result>>
    ELSE
        /\ Finish(Return([summaries_fetched |-> n]))
        /\ batches' = <<>>
        /\ summaries' = <<>>
        /\ units' = Nothing
        /\ UNCHANGED <<idx, attempt>>

(* The loops over the stations and over the summary records of a station,  *)
(* run to the next await: sums are the records of station i not yet sent.  *)
summary_continue(sts, i, sums, us, n) ==
    IF sums # <<>> THEN
        LET transformed_data == transform_daily_summary(Head(sums), us, sts[i]) IN
        /\ pc' = "send_events"
        /\ batches' = generate_batches(transformed_data, BatchSize)
        /\ summaries' = sums
        /\ units' = us
        /\ idx' = i
        /\ UNCHANGED <<handler, config, result, attempt>>
    ELSE IF i < Len(sts) THEN
        /\ pc' = "get_daily_summary"
        /\ idx' = i + 1
        /\ attempt' = 0
        /\ batches' = <<>>
        /\ summaries' = <<>>
        /\ units' = Nothing
        /\ UNCHANGED <<handler, config, result>>
    ELSE
        /\ Finish(Return([summaries_fetched |-> n]))
        /\ batches' = <<>>
        /\ summaries' = <<>>
        /\ units' = Nothing
        /\ UNCHANGED <<idx, attempt>>

(* a handler that answers a failure with the count it has reached *)
summary_raise_count(e) ==
    /\ Finish(Return([summaries_fetched |-> count]))
    /\ UNCHANGED <<idx, batches, summaries, units>>

(* the handler raises: nothing it holds changes any more *)
summary_raise(e) ==
    /\ Finish(Raise(e))
    /\ UNCHANGED <<idx, batches, summaries, units>>

summary_get_stations ==
    /\ handler = "fetch_daily_summary" /\ pc = "get_stations"
    /\ \E r \in Exchanges(StationsBodies) :
        LET out == get_stations(r) IN
        /\ Exchange(r, out, "stations", 0)
        /\ IF Retries(out, attempt + 1) THEN Retry
           ELSE /\ UNCHANGED <<count, scheduled, delivered, watermark, prev>>
                /\ IF out.kind = "raise"
                   THEN /\ summary_raise(out.exc)
                        /\ attempt' = attempt + 1
                        /\ UNCHANGED stations
                   ELSE IF ~Truthy(out.value)
                   THEN /\ Finish(Return([summaries_fetched |-> count]))
                        /\ attempt' = attempt + 1
                        /\ UNCHANGED <<stations, idx, batches, summaries, units>>
                   ELSE IF out.value.type = "str"
                   THEN /\ summary_raise(AttributeError)
                        /\ attempt' = attempt + 1
                        /\ UNCHANGED stations
                   ELSE /\ stations' = out.value.obj.stations
                        /\ summary_continue(out.value.obj.stations, 0, <<>>,
                                            Nothing, count)

summary_get_daily_summary ==
    /\ handler = "fetch_daily_summary" /\ pc = "get_daily_summary"
    /\ \E r \in Exchanges(DailySummaryBodies(stations[idx].Station_ID)) :
        LET out == get_daily_summary(r) IN
        /\ Exchange(r, out, "dailysummary", stations[idx].Station_ID)
        /\ IF Retries(out, attempt + 1) THEN Retry
           ELSE /\ UNCHANGED <<stations, count, scheduled, delivered, watermark,
                               prev>>
                /\ IF out.kind = "raise"
                   THEN summary_raise(out.exc) /\ attempt' = attempt + 1
                   ELSE IF ~Truthy(out.value)
                   THEN summary_continue(stations, idx, <<>>, Nothing, count)
                   ELSE IF out.value.type = "str"
                   THEN summary_raise(AttributeError) /\ attempt' = attempt + 1
                   ELSE summary_continue(stations, idx, out.value.obj.dailysummary,
                                         out.value.obj.units, count)

summary_send_events ==
    /\ handler = "fetch_daily_summary" /\ pc = "send_events"
    /\ UNCHANGED <<resp, ret, stations, scheduled, requests, watermark, prev>>
    /\ \/ \E n \in Accepted(Head(batches)) :
            /\ delivered' = Append(delivered, Sent(Head(batches), n))
            /\ count' = accumulate(count, n, Head(batches))
            /\ IF Tail(batches) # <<>>
               THEN /\ batches' = Tail(batches)
                    /\ UNCHANGED <<handler, pc, config, result, attempt, idx,
                                   summaries, units>>
               ELSE summary_continue(stations, idx, Tail(summaries), units,
                                     accumulate(count, n, Head(batches)))
       \/ /\ summary_raise(SendError)
          /\ UNCHANGED <<delivered, count, attempt>>

action_fetch_daily_summary ==
    \/ summary_begin
    \/ summary_get_stations
    \/ summary_get_daily_summary
    \/ summary_send_events

----------------------------------------------------------------------------

Next ==
    \/ action_auth
    \/ action_pull_observations
    \/ action_pull_station_conditions
    \/ action_fetch_daily_summary

Spec == Init /\ [][Next]_vars

----------------------------------------------------------------------------
(* Properties *)

LastCall == requests[Len(requests)]

(* the body of the last exchange is a JSON object *)
BodyIsObject == resp.body.kind = "json" /\ resp.body.value.type = "object"

BodyObject == resp.body.value.obj

(* the last exchange has a success status and a non-empty JSON body with a *)
(* code other than 200 and a message                                       *)
AppFailure ==
    /\ resp.kind = "response" /\ resp.status = 200
    /\ BodyIsObject
    /\ {"code", "message"} \subseteq DOMAIN BodyObject
    /\ BodyObject.code # 200

(* C1: whenever the HTTP response of a client operation has a success     *)
(* status and a non-empty JSON body whose code is not 200, the operation  *)
(* raises VWException with the code and the message of that body: it is   *)
(* not tried again and no parsed response is returned.                    *)
C1_ApiError ==
    AppFailure =>
        /\ ret = [kind |-> "raise", value |-> Nothing,
                  exc |-> [type |-> "VWException",
                           status_code |-> BodyObject.code,
                           message |-> BodyObject.message]]
        /\ pc = "idle"

C1_Witness ==
    /\ AppFailure
    /\ handler = "fetch_daily_summary"
    /\ LastCall.endpoint = "dailysummary"
    /\ ret.kind = "raise" /\ ret.exc.type = "VWException"
    /\ ret.exc.status_code = 400

(* C2: an HTTP 401 always makes a client operation raise                  *)
(* VWUnauthorizedException and an HTTP 404 always makes it raise          *)
(* VWNotFoundException, whatever the body holds, and the operation is not *)
(* tried again.                                                           *)
C2_UnauthorizedNotFound ==
    /\ (resp.kind = "response" /\ resp.status = 401) =>
            /\ ret.kind = "raise"
            /\ ret.exc.type = "VWUnauthorizedException"
            /\ ret.exc.status_code = 401
            /\ pc = "idle"
    /\ (resp.kind = "response" /\ resp.status = 404) =>
            /\ ret.kind = "raise"
            /\ ret.exc.type = "VWNotFoundException"
            /\ ret.exc.status_code = 404
            /\ pc = "idle"

(* a 401 whose body is a well-formed envelope with code 200 *)
C2_Witness ==
    /\ resp.kind = "response" /\ resp.status = 401
    /\ BodyIsObject
    /\ "conditions" \in DOMAIN BodyObject
    /\ BodyObject.code = 200
    /\ ret.kind = "raise" /\ ret.exc.type = "VWUnauthorizedException"

(* the handler has ended after at least one attempt of its client operation *)
Ended(h) == handler = h /\ pc = "idle" /\ ret.kind # "none"

(* the client operation returned a parsed response *)
Parsed == ret.kind = "return" /\ ret.value.type # "str"

(* the value a client operation returned is falsy: the empty string *)
Empty(v) == v.type = "str" /\ v.text = ""

(* C3 as stated: action_auth never raises and has three outcomes: an      *)
(* empty station-list result gives valid_credentials false with "Bad      *)
(* credentials", any error of get_stations gives valid_credentials false  *)
(* with the status code and the message, a successful fetch gives         *)
(* valid_credentials true.                                                *)
C3_ThreeOutcomes ==
    Ended("auth") =>
        /\ result.kind = "return"
        /\ ret.kind = "raise" =>
              result.value = [valid_credentials |-> FALSE,
                              status_code |-> ret.exc.status_code,
                              message |-> ret.exc.message]
        /\ (ret.kind = "return" /\ Empty(ret.value)) =>
              result.value = [valid_credentials |-> FALSE,
                              message |-> "Bad credentials"]
        /\ (ret.kind = "return" /\ ~Empty(ret.value)) =>
              result.value = [valid_credentials |-> TRUE]

(* C3 amended: action_auth returns valid_credentials false with "Bad      *)
(* credentials" when get_stations returns a falsy value, valid_credentials *)
(* false with the status code and the message when it raises              *)
(* Unauthorized, NotFound or the application error, error true with the   *)
(* status code when it raises an HTTP status error, valid_credentials     *)
(* true when it returns a truthy value; every other error of get_stations *)
(* is raised to the caller.                                               *)
C3_Outcomes ==
    Ended("auth") =>
        /\ (ret.kind = "return" /\ Empty(ret.value)) =>
              result = [kind |-> "return", exc |-> Nothing,
                        value |-> [valid_credentials |-> FALSE,
                                   message |-> "Bad credentials"]]
        /\ (ret.kind = "return" /\ ~Empty(ret.value)) =>
              result = [kind |-> "return", exc |-> Nothing,
                        value |-> [valid_credentials |-> TRUE]]
        /\ (ret.kind = "raise"
              /\ ret.exc.type \in {"VWUnauthorizedException",
                                   "VWNotFoundException", "VWException"}) =>
              result = [kind |-> "return", exc |-> Nothing,
                        value |-> [valid_credentials |-> FALSE,
                                   status_code |-> ret.exc.status_code,
                                   message |-> ret.exc.message]]
        /\ (ret.kind = "raise" /\ ret.exc.type = "HTTPStatusError") =>
              result = [kind |-> "return", exc |-> Nothing,
                        value |-> [error |-> TRUE,
                                   status_code |-> ret.exc.status_code]]
        /\ (ret.kind = "raise"
              /\ ret.exc.type \notin {"VWUnauthorizedException",
                                      "VWNotFoundException", "VWException",
                                      "HTTPStatusError"}) =>
              result = [kind |-> "raise", value |-> Nothing, exc |-> ret.exc]

(* a 500 on every attempt: the handler answers error true, status 500 *)
C3_Witness ==
    /\ Ended("auth")
    /\ attempt = MaxAttempts
    /\ ret.kind = "raise" /\ ret.exc.type = "HTTPStatusError"
    /\ result.kind = "return"
    /\ result.value = [error |-> TRUE, status_code |-> 500]

(* the units of work the station list sts asks for *)
Units_of_work(sts) ==
    [i \in 1..Len(sts) |->
        [action_id |-> "pull_station_conditions", config |-> [station |-> sts[i]]]]

(* C4: when get_stations succeeds with N stations, action_pull_observations *)
(* submits one unit of work per station, in list order, each carrying its *)
(* station, and returns stations_triggered N; the only client operation   *)
(* it calls is get_stations.                                              *)
C4_FanOut ==
    (handler = "pull_observations" /\ Parsed) =>
        LET sts == ret.value.obj.stations
            todo == Units_of_work(sts)
        IN  /\ requests = <<[endpoint |-> "stations", station |-> 0,
                             params |-> {"key"}]>>
            /\ Len(scheduled) <= Len(todo)
            /\ scheduled = SubSeq(todo, 1, Len(scheduled))
            /\ pc = "idle" =>
                  /\ scheduled = todo
                  /\ result = [kind |-> "return", exc |-> Nothing,
                               value |-> [stations_triggered |-> Len(sts)]]

(* two stations, listed 2 then 1, both submitted *)
C4_Witness ==
    /\ Ended("pull_observations") /\ Parsed
    /\ Len(scheduled) = 2
    /\ scheduled[1].config.station.Station_ID = 2
    /\ scheduled[2].config.station.Station_ID = 1
    /\ result.kind = "return"
    /\ result.value = [stations_triggered |-> 2]

(* C5: when get_stations raises Unauthorized, NotFound or the application *)
(* error in action_pull_observations, the handler raises that same error  *)
(* and has submitted no unit of work.                                     *)
C5_Reraise ==
    (Ended("pull_observations") /\ ret.kind = "raise"
        /\ ret.exc.type \in {"VWUnauthorizedException", "VWNotFoundException",
                             "VWException"}) =>
        /\ result = [kind |-> "raise", value |-> Nothing, exc |-> ret.exc]
        /\ scheduled = <<>>

C5_Witness ==
    /\ Ended("pull_observations")
    /\ ret.kind = "raise" /\ ret.exc.type = "VWException"
    /\ result.kind = "raise" /\ result.exc.status_code = 400
    /\ result.exc.message = "Incorrect KEY"

(* the records and the accepted counts of the batches forwarded so far *)
DeliveredRecords == Flatten([i \in 1..Len(delivered) |-> delivered[i].records])
AcceptedCounts == [i \in 1..Len(delivered) |-> delivered[i].accepted]
DeliveredLengths == [i \in 1..Len(delivered) |-> Len(delivered[i].records)]

(* C6: action_pull_station_conditions splits the transformed records into *)
(* consecutive batches of at most 200 (450 records: 200, 200, 50),        *)
(* forwards them one after the other in order, and returns as             *)
(* observations_extracted the sum of the lengths of the lists the sender  *)
(* returned.                                                              *)
C6_Batching ==
    (handler = "pull_station_conditions" /\ Parsed) =>
        LET all == transform(config, ret.value.obj)
            cut == DeliveredLengths \o [i \in 1..Len(batches) |-> Len(batches[i])]
        IN  /\ DeliveredRecords \o Flatten(batches) = all
            /\ \A i \in 1..Len(cut) :
                  IF i < Len(cut) THEN cut[i] = 200 ELSE cut[i] \in 1..200
            /\ (pc = "idle" /\ result.kind = "return") =>
                  /\ batches = <<>>
                  /\ Len(all) = 450 => DeliveredLengths = <<200, 200, 50>>
                  /\ result.value =
                        [observations_extracted |-> SumSeq(AcceptedCounts)]

(* 450 records went out in three batches and the sender took fewer *)
C6_Witness ==
    /\ Ended("pull_station_conditions") /\ Parsed
    /\ result.kind = "return"
    /\ DeliveredLengths = <<200, 200, 50>>
    /\ result.value.observations_extracted = 448

(* the largest timestamp among records *)
MaxTs(records) ==
    CHOOSE t \in { records[i].recorded_at : i \in 1..Len(records) } :
        \A i \in 1..Len(records) : records[i].recorded_at <= t

(* C7: the pull of a station runs over a window: its request carries the  *)
(* start of the window (now minus default_lookback_days while nothing is  *)
(* stored, the stored watermark afterwards), and after a successful pull  *)
(* that ingested records with largest timestamp T the stored watermark of *)
(* the station equals T.                                                  *)
C7_Watermark ==
    /\ (handler = "pull_station_conditions" /\ requests # <<>>) =>
            "from" \in LastCall.params
    /\ (Ended("pull_station_conditions") /\ result.kind = "return"
            /\ delivered # <<>>) =>
            watermark[config.Station_ID] =
                [present |-> TRUE, updated_at |-> MaxTs(DeliveredRecords)]

(* the pull that has just ended fetched no data, or its fetch or a send failed *)
FailedPull ==
    /\ Ended("pull_station_conditions")
    /\ \/ ret.kind = "raise"
       \/ ~Parsed
       \/ ret.value.obj.conditions = <<>>
       \/ result.kind = "raise"

NoData ==
    /\ resp.kind = "response" /\ resp.status = 200
    /\ resp.body.kind = "json"
    /\ \/ resp.body.value.type = "null"
       \/ DOMAIN BodyObject = {}
       \/ /\ "code" \in DOMAIN BodyObject
          /\ BodyObject.code = 200
          /\ DOMAIN BodyObject \cap {"stations", "conditions", "dailysummary"} = {}

(* C9: a success response whose JSON body is empty or lacks the payload   *)
(* is no data: the client operation returns without raising, the handler  *)
(* completes without error, forwards and submits nothing and reports zero. *)
C9_NoData ==
    (NoData /\ pc = "idle") =>
        /\ ret.kind = "return"
        /\ result.kind = "return"
        /\ handler = "auth" =>
              result.value = [valid_credentials |-> FALSE,
                              message |-> "Bad credentials"]
        /\ handler = "pull_observations" =>
              /\ result.value = [stations_triggered |-> 0]
              /\ scheduled = <<>>
        /\ handler = "pull_station_conditions" =>
              /\ result.value = [observations_extracted |-> 0]
              /\ delivered = <<>>
        /\ (handler = "fetch_daily_summary" /\ LastCall.endpoint = "stations") =>
              /\ result.value = [summaries_fetched |-> 0]
              /\ delivered = <<>>

(* the position in the station list of the station an event is about *)
Position(event) ==
    CHOOSE i \in 1..Len(stations) :
        stations[i].Station_ID = event.event_details.station_id

(* the events delivered so far for the station at position i *)
EventsOf(i) ==
    LET about(e) == e.event_details.station_id = stations[i].Station_ID
    IN  SelectSeq(DeliveredRecords, about)

(* the events the summary records sums of the station at position i give *)
EventsFor(sums, us, i) ==
    Flatten([j \in 1..Len(sums) |-> transform_daily_summary(sums[j], us, stations[i])])

(* the calls of get_daily_summary for the first k stations of the list *)
SummaryCalls(k) ==
    [i \in 1..k |-> [endpoint |-> "dailysummary",
                     station |-> stations[i].Station_ID, params |-> {"key"}]]

(* C10, in every state: action_fetch_daily_summary submits nothing to the *)
(* scheduler; it calls get_daily_summary for the stations in list order;  *)
(* the events it forwarded are those of the stations it has reached, in   *)
(* list order, one event per batch; while it sends, the events forwarded  *)
(* for the current station and those still to send are the summary        *)
(* records of that station in order; a returned summaries_fetched is the  *)
(* sum of the lengths of the lists the sender returned, after the last    *)
(* station.                                                               *)
C10_State ==
    (handler = "fetch_daily_summary" /\ stations # <<>>) =>
        LET k == IF pc = "get_daily_summary" /\ attempt = 0 THEN idx - 1 ELSE idx
            recs == DeliveredRecords
        IN  /\ scheduled = <<>>
            /\ requests = <<[endpoint |-> "stations", station |-> 0,
                             params |-> {"key"}]>> \o SummaryCalls(k)
            /\ \A j \in 1..Len(delivered) : Len(delivered[j].records) = 1
            /\ \A j \in 1..Len(recs) :
                  /\ Position(recs[j]) <= idx
                  /\ j > 1 => Position(recs[j - 1]) <= Position(recs[j])
            /\ pc = "send_events" =>
                  /\ Parsed
                  /\ EventsOf(idx) \o EventsFor(summaries, ret.value.obj.units, idx)
                        = EventsFor(ret.value.obj.dailysummary,
                                    ret.value.obj.units, idx)
            /\ (pc = "idle" /\ result.kind = "return") =>
                  /\ idx = Len(stations)
                  /\ result.value = [summaries_fetched |-> SumSeq(AcceptedCounts)]

(* C10, in every step: the handler leaves a station, for the next one or  *)
(* to return, only when every summary record fetched for it has been      *)
(* forwarded as an event.                                                 *)
C10_Step ==
    ( /\ handler = "fetch_daily_summary"
      /\ pc \in {"get_daily_summary", "send_events"}
      /\ \/ idx' = idx + 1
         \/ pc' = "idle" /\ result'.kind = "return" )
    => /\ ret'.kind = "return" /\ ret'.value.type # "str"
       /\ SelectSeq(Flatten([i \in 1..Len(delivered') |-> delivered'[i].records]),
                    LAMBDA e : e.event_details.station_id = stations[idx].Station_ID)
            = EventsFor(ret'.value.obj.dailysummary, ret'.value.obj.units, idx)

(* C10: action_fetch_daily_summary handles every station of the fetched   *)
(* list in-process and in list order, fetching the summary of a station   *)
(* and forwarding each of its records as an event before it moves on, and *)
(* when no step fails returns as summaries_fetched the number of events   *)
(* the sender reported as accepted.                                       *)
C10_DailySummary == []C10_State /\ [][C10_Step]_vars

(* two stations, listed 2 then 1, three events forwarded, two accepted *)
C10_Witness ==
    /\ Ended("fetch_daily_summary")
    /\ result.kind = "return"
    /\ Len(stations) = 2 /\ stations[1].Station_ID = 2
    /\ Len(delivered) = 3
    /\ result.value = [summaries_fetched |-> 2]

----------------------------------------------------------------------------
(* Retries of a client operation *)

(* a client operation is under way *)
Fetching == pc \in {"get_stations", "get_station_conditions", "get_daily_summary"}

(* an attempt of the operation under way has failed and a further request *)
(* of the same operation is about to be issued                             *)
Reattempting == Fetching /\ attempt >= 1

(* C11 as stated: a client operation is re-attempted only after a         *)
(* connection failure, a timeout or an HTTP 5xx; an HTTP 401, an HTTP     *)
(* 404, any other HTTP 4xx and an application-level failure (code other   *)
(* than 200) each end the operation on that attempt, with no further      *)
(* request.                                                                *)
C11_RetryTransportOnly ==
    /\ Reattempting => (resp.kind = "error" \/ resp.status >= 500)
    /\ (resp.kind = "response" /\ resp.status \in 400..499) => ~Reattempting
    /\ AppFailure => ~Reattempting

(* C11: a client operation is re-attempted only after an attempt that     *)
(* raised an httpx.HTTPError, which is a connection failure or timeout or *)
(* any HTTP error status other than 401 and 404, a 4xx such as 403 as     *)
(* well as a 5xx; such an error is re-attempted while attempts remain; an *)
(* HTTP 401, an HTTP 404 and an application-level failure (code other     *)
(* than 200) end the operation on that attempt, with no further request.  *)
C11_RetryHTTPError ==
    /\ Reattempting =>
            /\ ret.kind = "raise"
            /\ ret.exc.type \in {"HTTPStatusError", "TransportError"}
            /\ \/ resp.kind = "error"
               \/ resp.status >= 400 /\ resp.status \notin {401, 404}
    /\ (/\ ret.kind = "raise"
        /\ ret.exc.type \in {"HTTPStatusError", "TransportError"}
        /\ attempt < MaxAttempts) => Reattempting
    /\ (resp.kind = "response" /\ resp.status \in {401, 404}) => ~Reattempting
    /\ AppFailure => ~Reattempting

(* an HTTP 403 is about to be tried again *)
C11_Witness ==
    /\ Reattempting
    /\ resp.kind = "response" /\ resp.status = 403
    /\ ret.exc.type = "HTTPStatusError"

----------------------------------------------------------------------------
(* Failures of the per-station pull *)

(* C12: whenever get_station_conditions raises inside the per-station     *)
(* conditions handler (VWUnauthorizedException, VWNotFoundException,      *)
(* VWException of a body whose code is not 200, or a transport error once *)
(* the retries are used up), the handler raises that same error to its    *)
(* caller: it returns no result dictionary and no batch has been          *)
(* forwarded to the downstream sender.                                     *)
C12_FetchFailure ==
    (Ended("pull_station_conditions") /\ ret.kind = "raise") =>
        /\ result = Raise(ret.exc)
        /\ delivered = <<>>
        /\ batches = <<>>
        /\ count = 0

(* the application error of the handler's error test: code 400 *)
C12_Witness ==
    /\ Ended("pull_station_conditions")
    /\ AppFailure
    /\ ret.kind = "raise" /\ ret.exc.type = "VWException"
    /\ result.kind = "raise" /\ result.exc.type = "VWException"
    /\ delivered = <<>>

----------------------------------------------------------------------------
(* The transformers *)

(* the readings the conditions handler fetched and the observations it    *)
(* made of them, forwarded or still to forward                             *)
Transformed ==
    /\ handler = "pull_station_conditions"
    /\ pc \in {"send_observations", "idle"}
    /\ Parsed
    /\ delivered \o batches # <<>>

Observations == DeliveredRecords \o Flatten(batches)

(* the summary record the daily-summary handler is forwarding *)
Summarised == handler = "fetch_daily_summary" /\ pc = "send_events"

(* C13 as stated: in every observation, every field of the reading other  *)
(* than ts is replaced in additional by the string "{value} {unit}" of    *)
(* the units table, ts is moved into recorded_at and is absent from       *)
(* additional; in every summary event, every field of the summary record  *)
(* other than its date is replaced in event_details by "{value} {unit}",  *)
(* the date is absent from event_details and recorded_at is UTC midnight  *)
(* of that date.                                                           *)
C13_AllDecorated ==
    /\ Transformed =>
        LET src == ret.value.obj.conditions
            us == ret.value.obj.units
        IN  \A i \in 1..Len(Observations) :
              /\ Observations[i].recorded_at = src[i].ts
              /\ "ts" \notin DOMAIN Observations[i].additional
              /\ \A k \in DOMAIN src[i] \ {"ts"} :
                    /\ k \in DOMAIN us
                    /\ Observations[i].additional[k]
                         = ToString(src[i][k]) \o " " \o us[k]
    /\ Summarised =>
        LET src == Head(summaries)
            ev == batches[1][1]
        IN  /\ ev.recorded_at
                 = [date |-> src.Date, hour |-> 0, minute |-> 0, tz |-> "UTC"]
            /\ "Date" \notin DOMAIN ev.event_details
            /\ \A k \in DOMAIN src \ {"Date"} :
                    /\ k \in DOMAIN units
                    /\ ev.event_details[k] = ToString(src[k]) \o " " \o units[k]

(* the decorated fields of a record: a field that has an entry in the     *)
(* units table holds "{value} {unit}", a field that has none holds the    *)
(* value of the record                                                     *)
DecoratedAs(fields, record, us) ==
    \A k \in DOMAIN record :
        k \in DOMAIN fields =>
            fields[k] = IF k \in DOMAIN us
                        THEN ToString(record[k]) \o " " \o us[k]
                        ELSE record[k]

(* C13: in every observation, every field of the reading that has an      *)
(* entry in the units table, ts excepted, is replaced in additional by    *)
(* the string "{value} {unit}", every other field of the reading but ts   *)
(* (station_id, station_Name, max_wind) is carried as it is, the height   *)
(* of the station is added as station_height, and ts is moved into        *)
(* recorded_at and is absent from additional; in every summary event,     *)
(* every field of the summary record that has an entry in the units table *)
(* is replaced in event_details by "{value} {unit}", every other field,   *)
(* the date among them, is carried as it is, and recorded_at is UTC       *)
(* midnight of the date of the record.                                    *)
C13_Transformers ==
    /\ Transformed =>
        LET src == ret.value.obj.conditions
            us == ret.value.obj.units
        IN  /\ Len(Observations) = Len(src)
            /\ \A i \in 1..Len(Observations) :
                  /\ Observations[i].recorded_at = src[i].ts
                  /\ DOMAIN Observations[i].additional
                       = (DOMAIN src[i] \ {"ts"}) \cup {"station_height"}
                  /\ Observations[i].additional.station_height = config.height
                  /\ DecoratedAs(Observations[i].additional, src[i], us)
    /\ Summarised =>
        LET src == Head(summaries)
            ev == batches[1][1]
        IN  /\ batches = <<<<ev>>>>
            /\ ev.recorded_at
                 = [date |-> src.Date, hour |-> 0, minute |-> 0, tz |-> "UTC"]
            /\ DOMAIN ev.event_details = DOMAIN src
            /\ ev.event_details.Date = src.Date
            /\ DecoratedAs(ev.event_details, src, units)

(* a summary event: the average temperature carries its unit, the minimum *)
(* humidity, which has no unit, and the date do not                       *)
C13_Witness ==
    /\ Summarised
    /\ batches[1][1].event_details.avg_temp = "21 C"
    /\ batches[1][1].event_details.min_RH = 40
    /\ batches[1][1].event_details.Date = Head(summaries).Date
    /\ batches[1][1].recorded_at.hour = 0

----------------------------------------------------------------------------
(* Delivery across invocations of the per-station pull *)

(* a pull of the station whose previous pull failed in a send ends with a *)
(* result dictionary                                                       *)
C14_Recovers ==
    /\ handler = "pull_station_conditions"
    /\ pc # "idle" /\ pc' = "idle"
    /\ result'.kind = "return"
    /\ prev.outcome = "send_failed"
    /\ prev.station = config.Station_ID

(* C14 as stated: no reading is skipped.  When a pull has fetched         *)
(* readings and failed before forwarding all of them, the next pull of    *)
(* the station that ends with a result has forwarded every reading the    *)
(* failed pull left unforwarded.                                           *)
C14_AtLeastOnce ==
    [][C14_Recovers =>
          LET recs == Flatten([i \in 1..Len(delivered') |-> delivered'[i].records])
          IN  \A i \in 1..Len(prev.unsent) :
                \E j \in 1..Len(recs) : recs[j] = prev.unsent[i]]_vars

----------------------------------------------------------------------------
(* A send that fails in the per-station pull *)

(* the pull that has just ended failed in a send *)
SendFailed ==
    /\ handler = "pull_station_conditions" /\ pc = "idle"
    /\ prev.outcome = "send_failed"
    /\ prev.station = config.Station_ID

(* the pull under way follows a pull of the same station that failed in a *)
(* send, and has fetched the readings that pull had fetched               *)
Reinvoked ==
    /\ handler = "pull_station_conditions" /\ pc = "send_observations"
    /\ prev.outcome = "send_failed"
    /\ prev.station = config.Station_ID
    /\ Observations = Flatten(prev.sent) \o prev.unsent

(* when the send of batch k has failed: batches 1..k-1 are the delivered  *)
(* ones, batch k and the batches after it were not sent, and the handler  *)
(* raised the error of the sender                                         *)
C16_State ==
    SendFailed =>
        LET todo == generate_batches(transform(config, ret.value.obj), BatchSize)
            k == Len(delivered) + 1
        IN  /\ k <= Len(todo)
            /\ \A j \in 1..(k - 1) : delivered[j].records = todo[j]
            /\ batches = SubSeq(todo, k, Len(todo))
            /\ result = Raise(SendError)

(* within an invocation a delivered batch stays delivered *)
C16_Step ==
    (handler = "pull_station_conditions" /\ pc # "idle") =>
        /\ Len(delivered') >= Len(delivered)
        /\ SubSeq(delivered', 1, Len(delivered)) = delivered

(* a re-invocation starts again at batch 1: what it delivers first are the *)
(* batches the failed pull had delivered                                   *)
C16_Again ==
    Reinvoked =>
        \A j \in 1..Len(prev.sent) :
            j <= Len(delivered) => delivered[j].records = prev.sent[j]

(* C16: in the per-station conditions handler, when forwarding batch k    *)
(* fails, batches 1..k-1 have been delivered and stay delivered, batch k  *)
(* and the batches after it are never sent, and the handler raises        *)
(* instead of returning a count; a re-invocation that fetches the same    *)
(* readings delivers batches 1..k-1 a second time.                         *)
C16_PartialSend == []C16_State /\ [][C16_Step]_vars /\ []C16_Again

(* the third batch failed, and the re-invocation has delivered the first  *)
(* two batches again                                                       *)
C16_Witness ==
    /\ Reinvoked
    /\ Len(prev.sent) = 2
    /\ prev.unsent # <<>>
    /\ Len(delivered) = 2
    /\ delivered[1].records = prev.sent[1]
    /\ delivered[2].records = prev.sent[2]

----------------------------------------------------------------------------
(* A failure in the daily-summary loop *)

(* the step in which the fetch of the summary of the station at position  *)
(* idx fails for good, or the forwarding of one of its events fails       *)
C17_Fails ==
    /\ handler = "fetch_daily_summary"
    /\ \/ /\ pc = "get_daily_summary"
          /\ ret'.kind = "raise"
          /\ ~(pc' = "get_daily_summary" /\ attempt' >= 1)
       \/ /\ pc = "send_events"
          /\ delivered' = delivered

C17_Step ==
    C17_Fails =>
        /\ pc' = "idle"
        /\ result' = Raise(IF pc = "send_events" THEN SendError ELSE ret'.exc)
        /\ delivered' = delivered
        /\ idx' = idx
        /\ requests' = <<[endpoint |-> "stations", station |-> 0,
                          params |-> {"key"}]>> \o SummaryCalls(idx)

(* C17: in the daily-summary handler, a failure while fetching or         *)
(* forwarding the summary of the station at position k of the station     *)
(* list aborts the invocation in that step: the error is raised to the    *)
(* caller and no count is returned, the summaries fetched are those of    *)
(* the stations at positions 1..k and of no later station, and the events *)
(* forwarded before are still delivered.                                   *)
C17_Abort == [][C17_Step]_vars

(* the fetch for the second station failed after the events of the first  *)
(* station were forwarded                                                  *)
C17_Witness ==
    /\ Ended("fetch_daily_summary")
    /\ idx = 2
    /\ ret.kind = "raise" /\ ret.exc.type = "VWNotFoundException"
    /\ result = Raise(ret.exc)
    /\ delivered # <<>>
    /\ \A j \in 1..Len(DeliveredRecords) : Position(DeliveredRecords[j]) = 1
    /\ Len(requests) = 3

====
